---- MODULE Spec2Model ----
(***************************************************************************)
(* Model of lib/cmgr/cmgr.c: the client side of the cluster LVM daemon     *)
(* protocol (open_local_sock, send_request, build_header, cluster_write,   *)
(* cluster_request, cluster_free_request) and the lock/unlock API built on *)
(* it (lock_for_cluster, unlock_for_cluster, lock_lvm, lock_vg, lock_lv    *)
(* and their unlocks).                                                     *)
(*                                                                         *)
(* C strings are sequences of one-character strings, without the           *)
(* terminating NUL; a char array that holds a C string is the sequence     *)
(* followed by NUL.  The daemon, the kernel and malloc are the             *)
(* environment: what they answer is an input of each action.  Reads of     *)
(* freed or uninitialised memory take their value from an input as well.   *)
(***************************************************************************)
EXTENDS Integers, Sequences, FiniteSets, TLC

(***************************************************************************)
(* Bounds of the model.                                                    *)
(***************************************************************************)
MaxHandles == 2
MaxReplyLen == 3
FailedNode == 2
MaxCalls == 2
MaxApiCalls == 3
MaxLen == 2
MaxRecords == 2
MaxDecodes == 1

(***************************************************************************)
(* Program constants.                                                      *)
(***************************************************************************)
LVM_SIGNATURE == 1129076301
ENOENT == 2
EIO == 5
ENOMEM == 12
EBUSY == 16
EINVAL == 22
ENOTCONN == 107
ECONNREFUSED == 111
EHOSTDOWN == 112
CLVMD_FLAG_LOCAL == 1
SockFd == 3

NoSock == 0 - 1
NUL == "NUL"
NullStr == <<"(null)">>
EmptyStr == <<>>

CLVMD_CMD_LOCK == "LOCK"
CLVMD_CMD_LOCK_SUSPEND == "LOCK_SUSPEND"
CLVMD_CMD_UNLOCK == "UNLOCK"
CLVMD_CMD_UNLOCK_RESUME == "UNLOCK_RESUME"
CLVMD_CMD_TEST == "TEST"

(***************************************************************************)
(* Pointers: NULL, the blocks of the heap that hold response sets, and one *)
(* address outside them whose memory carries no signature.                 *)
(***************************************************************************)
NULL == 0
Handles == 1..MaxHandles
Foreign == MaxHandles + 1
Pointers == {NULL} \cup Handles \cup {Foreign}

(***************************************************************************)
(* Input domains.                                                          *)
(***************************************************************************)
NodeChars == <<"A", "B", "C", "D", "E">>
NodeName(i) == <<NodeChars[i]>>
GarbageNode == <<"?">>
VGNames == {<<"v", "g">>}
LVNames == {<<"l", "v">>}
Scopes == {"V", "L", "G"}
BadScope == "X"
Targets == {<<"*">>, <<".">>, EmptyStr, NodeName(1)}
TestData == <<"d", NUL>>

Statuses == {0, 0 - EHOSTDOWN, 0 - EBUSY}
HeaderStatuses == {0, 0 - ENOENT}

\* The records of a reply, in order.  The records of the lock API carry an
\* empty response text.
Entry(i, s) == [node |-> NodeName(i), status |-> s, response |-> EmptyStr]
AllReplies == UNION {{[i \in 1..n |-> Entry(i, f[i])] : f \in [1..n -> Statuses]} : n \in 0..MaxReplyLen}
ZeroReply(n) == [i \in 1..n |-> Entry(i, 0)]
NonZero(r) == {i \in 1..Len(r) : r[i].status # 0}
\* The replies drawn: those in which no node but the one at FailedNode failed.
Replies == {r \in AllReplies : NonZero(r) \subseteq {FailedNode}}

\* The argument area of a reply as the code walks it (lines 229-237): per
\* record the node name, the status word and the response text, one field
\* each; an empty node name ends the records.
RECURSIVE Pack(_)
Pack(r) == IF r = <<>> THEN <<>> ELSE <<r[1].node, r[1].status, r[1].response>> \o Pack(Tail(r))
Wire(r) == Pack(r) \o <<EmptyStr>>

(***************************************************************************)
(* The heap of response sets.  A live block holds the two header words     *)
(* (signature, count) and the entries; what a freed block holds is not     *)
(* defined, and a read of it takes its value from an input.                *)
(***************************************************************************)
FreeBlock == [live |-> FALSE, sig |-> 0, num |-> 0, ent |-> <<>>]
LiveBlock(ent) == [live |-> TRUE, sig |-> LVM_SIGNATURE, num |-> Len(ent), ent |-> ent]
FreeHandles(hp) == {h \in Handles : ~hp[h].live}
IsLive(hp, p) == p \in Handles /\ hp[p].live
IsStale(hp, p) == p \in Handles /\ ~hp[p].live

(***************************************************************************)
(* The state a function works on: the statics of cmgr.c, errno, the heap,  *)
(* what the call has done so far (requests written, blocks freed,          *)
(* collaborators called, messages logged) and the function's results.      *)
(***************************************************************************)
SetRet(m, r) == [m EXCEPT !.ret = r]

\* The element of a one-element set: Only({e : v \in {d}}) is e with v
\* standing for the value of d.
Only(S) == CHOOSE y \in S : TRUE

FreeEvents(p, n, ok) == [i \in 1..n |-> [what |-> "buf", h |-> p, i |-> i, ok |-> ok]] \o <<[what |-> "set", h |-> p, i |-> 0, ok |-> ok]>>

\* cluster_free_request(response).  sigThere: when the pointer is a freed
\* block, whether the word read from it still equals the signature.
cluster_free_request(m, p, sigThere) ==
    LET live == IsLive(m.heap, p)
        word == IF live THEN m.heap[p].sig
                ELSE IF IsStale(m.heap, p) /\ sigThere THEN LVM_SIGNATURE ELSE 0
    IN  IF p = NULL \/ word # LVM_SIGNATURE
        THEN [m EXCEPT !.errno = EINVAL, !.ret = 0 - 1]
        ELSE IF live
        THEN [m EXCEPT !.heap[p] = FreeBlock,
                       !.freed = @ \o FreeEvents(p, m.heap[p].num, TRUE),
                       !.ret = 0]
        ELSE [m EXCEPT !.freed = @ \o <<[what |-> "set", h |-> p, i |-> 0, ok |-> FALSE]>>,
                       !.ret = 0]

\* open_local_sock(): the descriptor, or -1 with errno set by connect() and
\* the socket closed again.  opens: the attempts made during the step.
open_local_sock(m, conn) ==
    IF conn = "ok" THEN [m EXCEPT !.opens = Append(@, "ok"), !.ret = SockFd]
    ELSE IF conn = "enoent" THEN [m EXCEPT !.opens = Append(@, "failed"), !.errno = ENOENT, !.ret = NoSock]
    ELSE [m EXCEPT !.opens = Append(@, "failed"), !.errno = ECONNREFUSED, !.ret = NoSock]

\* build_header comparing only the first character of the target.
build_header_prefix(cmd, node, len) ==
    LET base == [cmd |-> cmd, status |-> 0, flags |-> 0, clientid |-> 0, arglen |-> len, node |-> <<NUL>>]
    IN  IF node # NullStr /\ node # EmptyStr
        THEN IF node[1] = "*" THEN base
             ELSE IF node[1] = "." THEN [base EXCEPT !.flags = CLVMD_FLAG_LOCAL]
             ELSE [base EXCEPT !.node = node \o <<NUL>>]
        ELSE base

\* build_header(head, cmd, node, data, len)
build_header(cmd, node, len) ==
    LET base == [cmd |-> cmd, status |-> 0, flags |-> 0, clientid |-> 0, arglen |-> len, node |-> <<NUL>>]
    IN  IF node # NullStr
        THEN IF node = <<"*">> THEN base
             ELSE IF node = <<".">> THEN [base EXCEPT !.flags = CLVMD_FLAG_LOCAL]
             ELSE [base EXCEPT !.node = node \o <<NUL>>]
        ELSE base

\* send_request returning -1 for a negative header status, as it does for a
\* failed read.
send_request_fatal(m, req, x) ==
    LET w == [m EXCEPT !.sent = Append(@, [fd |-> m.sock, head |-> req.head, data |-> req.data, whole |-> x.io # "short_write"])]
    IN  IF x.io = "short_write" THEN [w EXCEPT !.ret = 0 - 1]
        ELSE IF x.io = "read_err" THEN [w EXCEPT !.errno = EIO, !.ret = 0 - 1]
        ELSE IF x.io = "eof" THEN [w EXCEPT !.errno = ENOTCONN, !.ret = 0 - 1]
        ELSE IF x.io = "nomem_buf" THEN [w EXCEPT !.errno = ENOMEM, !.ret = 0 - 1]
        ELSE IF x.hst < 0 THEN [w EXCEPT !.retbuf = TRUE, !.errno = 0 - x.hst, !.ret = 0 - 1]
        ELSE [w EXCEPT !.retbuf = TRUE, !.ret = 0]

\* send_request(inbuf, inlen, retbuf): -1, -2 or 0; retbuf tells whether
\* the reply buffer was allocated.
send_request(m, req, x) ==
    LET w == [m EXCEPT !.sent = Append(@, [fd |-> m.sock, head |-> req.head, data |-> req.data, whole |-> x.io # "short_write"])]
    IN  IF x.io = "short_write" THEN [w EXCEPT !.ret = 0 - 1]
        ELSE IF x.io = "read_err" THEN [w EXCEPT !.errno = EIO, !.ret = 0 - 1]
        ELSE IF x.io = "eof" THEN [w EXCEPT !.errno = ENOTCONN, !.ret = 0 - 1]
        ELSE IF x.io = "nomem_buf" THEN [w EXCEPT !.errno = ENOMEM, !.ret = 0 - 1]
        ELSE IF x.hst < 0 THEN [w EXCEPT !.retbuf = TRUE, !.errno = 0 - x.hst, !.ret = 0 - 2]
        ELSE [w EXCEPT !.retbuf = TRUE, !.ret = 0]

FreeRetbuf(m) == IF m.retbuf THEN [m EXCEPT !.retbuf = FALSE, !.freed = Append(@, [what |-> "retbuf", h |-> 0, i |-> 0, ok |-> TRUE])] ELSE m

\* The connection opened for every exchange, whether or not there is one.
ConnectAlways(m, conn) == Only({[o EXCEPT !.sock = o.ret] : o \in {open_local_sock(m, conn)}})

\* Lines 186-187 and 227-228: the connection is opened when there is none.
Connect(m, conn) ==
    IF m.sock = NoSock THEN Only({[o EXCEPT !.sock = o.ret] : o \in {open_local_sock(m, conn)}}) ELSE m

\* cluster_write(cmd, node, data, len)
cluster_write(m, cmd, node, data, x) ==
    Only({IF c.sock = NoSock THEN SetRet(c, 0 - 1)
          ELSE Only({SetRet(FreeRetbuf(s), s.ret)
                     : s \in {send_request(c, [head |-> build_header(cmd, node, Len(data)), data |-> data], x)}})
          : c \in {Connect(m, x.conn)}})

\* Lines 229-237: the records are counted, from the field at inptr on, up to
\* the first empty node name.
RECURSIVE CountResponses(_, _)
CountResponses(buf, inptr) ==
    IF buf[inptr] = EmptyStr THEN 0 ELSE 1 + CountResponses(buf, inptr + 3)

RECURSIVE UnpackBackwards(_, _)
UnpackBackwards(buf, inptr) ==
    IF buf[inptr] = EmptyStr THEN <<>>
    ELSE UnpackBackwards(buf, inptr + 3) \o <<[node |-> buf[inptr], status |-> buf[inptr + 1], response |-> buf[inptr + 2]]>>

\* Lines 254-283: the records are unpacked, in order, up to the first empty
\* node name.
RECURSIVE Unpack(_, _)
Unpack(buf, inptr) ==
    IF buf[inptr] = EmptyStr THEN <<>>
    ELSE <<[node |-> buf[inptr], status |-> buf[inptr + 1], response |-> buf[inptr + 2]]>> \o Unpack(buf, inptr + 3)

\* Lines 264-276: malloc fails for the response text of the entry x.at
\* (counted from 1), after *response was assigned at line 250.  The loop at
\* lines 271-272 passes rarray[i].response, which is NULL, to free once for
\* each earlier entry; the set is freed, and the function returns without
\* reaching line 286.
EntryNoMem(s, x) ==
    [s EXCEPT !.rset = TRUE, !.rptr = x.h,
              !.freed = @ \o [j \in 1..(x.at - 1) |-> [what |-> "null", h |-> NULL, i |-> x.at, ok |-> TRUE]]
                          \o <<[what |-> "set", h |-> x.h, i |-> 0, ok |-> TRUE]>>,
              !.errno = ENOMEM, !.ret = 0 - 1]

\* Lines 236-288: the reply is decoded into a new response set when
\* send_request returned 0 or -2.
Decode(s, x) ==
    IF s.ret = 0 \/ s.ret = 0 - 2
    THEN IF x.io = "nomem_set"
         THEN [FreeRetbuf(s) EXCEPT !.errno = ENOMEM, !.ret = 0 - 1]
         ELSE IF x.io = "nomem_entry" /\ x.at <= CountResponses(x.stream, 1)
         THEN EntryNoMem(s, x)
         ELSE Only({[FreeRetbuf([s EXCEPT !.heap[x.h] = [LiveBlock(rarray) EXCEPT !.num = n], !.rset = TRUE, !.rptr = x.h, !.rnum = n])
                     EXCEPT !.ret = s.ret]
                    : n \in {CountResponses(x.stream, 1)}, rarray \in {Unpack(x.stream, 1)}})
    ELSE SetRet(FreeRetbuf(s), s.ret)

\* cluster_request(cmd, node, data, len, response, num).  rset, rptr: whether
\* *response was assigned, and to what; rnum: *num.
cluster_request(m, cmd, node, data, x) ==
    Only({IF c.sock = NoSock THEN SetRet(c, 0 - 1)
          ELSE Only({Decode(s, x)
                     : s \in {send_request(c, [head |-> build_header(cmd, node, Len(data)), data |-> data], x)}})
          : c \in {Connect([m EXCEPT !.rset = FALSE, !.rptr = NULL, !.rnum = 0, !.retbuf = FALSE], x.conn)}})

(***************************************************************************)
(* The lock API.                                                           *)
(***************************************************************************)
LockArgs(scope, name) == <<scope>> \o (IF name = NullStr THEN <<>> ELSE name) \o <<NUL>>

\* response[i] (i counted from 1).  Inside a live block it is the entry; in
\* a freed block, or past the end of a live one, it is whatever the memory
\* holds: sv.
EntryAt(hp, p, i, sv) ==
    IF IsLive(hp, p) /\ i <= hp[p].num THEN hp[p].ent[i]
    ELSE [node |-> IF sv.junk THEN GarbageNode ELSE NodeName(i), status |-> sv.st[i], response |-> EmptyStr]

NoView == [st |-> [i \in 1..MaxReplyLen |-> 0], junk |-> FALSE]

Msg(what, node) == [msg |-> what, node |-> node]

LockCmd(suspend) == IF suspend # 0 THEN CLVMD_CMD_LOCK_SUSPEND ELSE CLVMD_CMD_LOCK

\* Lines 355-357: cluster_request stores through &response and &num_responses.
StoreReply(r) == [r EXCEPT !.response = IF r.rset THEN r.rptr ELSE @, !.num_responses = r.rnum]

\* Lines 360-368: the entries of the stored set that report host down, and
\* the message logged for each.
HostDown(a) ==
    SelectSeq([i \in 1..a.num_responses |-> EntryAt(a.heap, a.response, i, NoView)], LAMBDA e : e.status = 0 - EHOSTDOWN)
LogDown(a) == [a EXCEPT !.log = @ \o [i \in 1..Len(HostDown(a)) |-> Msg("clvmd not running", HostDown(a)[i].node)]]

\* The exit of lock_for_cluster without lines 372-379: a failed lock that
\* keeps the set and its count.
LockEndKeeps(l, status, sigThere) ==
    [l EXCEPT !.ret = status, !.acq = IF status # 0 THEN "failed" ELSE "held"]

\* Lines 370-380.
LockEnd(l, status, sigThere) ==
    IF status # 0
    THEN [cluster_free_request(l, l.response, sigThere)
          EXCEPT !.num_responses = 0, !.errno = l.errno, !.ret = status, !.acq = "failed"]
    ELSE [l EXCEPT !.ret = status, !.acq = "held"]

\* lock_for_cluster(scope, name, suspend).  acq records how the most recent
\* call ended: "none" before the first, "scope" when it refused the scope,
\* "failed" when it returned through lines 372-379, "held" when it returned 0.
lock_for_cluster(m, scope, name, suspend, x, sigThere) ==
    IF scope \notin Scopes THEN [m EXCEPT !.errno = EINVAL, !.ret = 0 - 1, !.acq = "scope"]
    ELSE Only({Only({LockEnd(l, IF HostDown(l) # <<>> THEN 0 - 1 ELSE r.ret, sigThere)
                     : l \in {LogDown(StoreReply(r))}})
               : r \in {cluster_request(m, LockCmd(suspend), EmptyStr, LockArgs(scope, name), x)}})

\* The lock of a scope handing the caller's suspend flag to the collaborator.
LockScopeFlag(m, scope, name, suspend, x, sigThere, local) ==
    Only({IF r.ret = 0 - 1
          THEN IF r.errno = ENOENT
               THEN [r EXCEPT !.clustered = 0,
                              !.collab = IF local = "" THEN @ ELSE Append(@, [fn |-> local, obj |-> name, flag |-> suspend]),
                              !.ret = 0]
               ELSE [r EXCEPT !.clustered = 1, !.ret = 0 - 1]
          ELSE [r EXCEPT !.clustered = 1]
          : r \in {lock_for_cluster([m EXCEPT !.suspended = suspend], scope, name, suspend, x, sigThere)}})

\* The part lock_lvm, lock_vg and lock_lv share; local is the collaborator
\* the fallback calls ("" for lock_lvm, which calls none).
LockScope(m, scope, name, suspend, x, sigThere, local) ==
    Only({IF r.ret = 0 - 1
          THEN IF r.errno = ENOENT
               THEN [r EXCEPT !.clustered = 0,
                              !.collab = IF local = "" THEN @ ELSE Append(@, [fn |-> local, obj |-> name, flag |-> 1]),
                              !.ret = 0]
               ELSE [r EXCEPT !.clustered = 1, !.ret = 0 - 1]
          ELSE [r EXCEPT !.clustered = 1]
          : r \in {lock_for_cluster([m EXCEPT !.suspended = suspend], scope, name, suspend, x, sigThere)}})

lock_lvm(m, suspend, x, sigThere) == LockScope(m, "G", NullStr, suspend, x, sigThere, "")
lock_vg(m, vg, suspend, x, sigThere) == LockScope(m, "V", vg, suspend, x, sigThere, "suspend_lvs_in_vg")
lock_lv(m, lv, suspend, x, sigThere) == LockScope(m, "L", lv, suspend, x, sigThere, "lv_suspend")

(***************************************************************************)
(* unlock_for_cluster, in the steps of its control flow: the entry (lines  *)
(* 393-428), the whole-cluster unlock (464-489), one turn of the per-node  *)
(* loop (434-460) and the exit (487-489).  fr holds the locals.            *)
(***************************************************************************)
NoFrame == [i |-> 0, cmd |-> "", args |-> <<>>, ur |-> NULL, urset |-> FALSE]

\* The unlock command chosen without regard to the suspend flag.
UnlockCmdPlain(suspend) == CLVMD_CMD_UNLOCK

\* Line 420.
UnlockCmd(suspend) == IF suspend # 0 THEN CLVMD_CMD_UNLOCK_RESUME ELSE CLVMD_CMD_UNLOCK

\* failed: the number of entries of the stored set with a non-zero status.
Failed(m, sv) == Cardinality({i \in 1..m.num_responses : EntryAt(m.heap, m.response, i, sv).status # 0})

\* The entry of unlock_for_cluster taking the per-node loop whatever the
\* statuses are, and the entry without the test of line 393.
UnlockEntryEach(m, scope, sv) ==
    IF m.num_responses = 0 THEN [go |-> "ret", m |-> SetRet(m, 0)]
    ELSE IF scope \notin Scopes THEN [go |-> "ret", m |-> [m EXCEPT !.errno = EINVAL, !.ret = 0 - 1]]
    ELSE [go |-> "each", m |-> m]
UnlockEntryNoCheck(m, scope, sv) ==
    IF scope \notin Scopes THEN [go |-> "ret", m |-> [m EXCEPT !.errno = EINVAL, !.ret = 0 - 1]]
    ELSE IF Failed(m, sv) > 0 THEN [go |-> "each", m |-> m]
    ELSE [go |-> "all", m |-> m]

\* Where the entry leads: "ret" (returned, m.ret), "all" or "each".
UnlockEntry(m, scope, sv) ==
    IF m.num_responses = 0 THEN [go |-> "ret", m |-> SetRet(m, 0)]
    ELSE IF scope \notin Scopes THEN [go |-> "ret", m |-> [m EXCEPT !.errno = EINVAL, !.ret = 0 - 1]]
    ELSE IF Failed(m, sv) > 0 THEN [go |-> "each", m |-> m]
    ELSE [go |-> "all", m |-> m]

\* unlock_response after a cluster_request: assigned by it, or left as it was
\* (pv when it was never assigned).
UnlockResponse(r, fr, pv) == IF r.rset THEN r.rptr ELSE IF fr.urset THEN fr.ur ELSE pv

\* A read of entry i (counted from 1) of a set that holds n entries: line 448
\* reads unlock_response[0], line 481 reads response[i].
ReadOf(set, i, n) == [set |-> set, i |-> i, n |-> n]

\* Lines 464-484: the whole-cluster unlock and the report of its reply.
UnlockAll(m, fr, x, sv) ==
    Only({IF r.ret # 0
          THEN [r EXCEPT !.log = Append(@, Msg("cluster command failed", EmptyStr))]
          ELSE LET bad == SelectSeq([i \in 1..r.rnum |-> i], LAMBDA i : EntryAt(r.heap, r.rptr, i, NoView).status # 0)
               IN  [r EXCEPT !.log = @ \o [k \in 1..Len(bad) |-> Msg("unlock failed", EntryAt(r.heap, r.response, bad[k], sv).node)],
                             !.reads = @ \o [k \in 1..Len(bad) |-> ReadOf("response", bad[k], r.num_responses)]]
          : r \in {cluster_request(m, fr.cmd, EmptyStr, fr.args, x)}})

\* Lines 436-452 and 455-459: one turn of the loop, for the entry e that
\* response[fr.i] reads; the release of the reply (line 453) follows it when
\* a request was made.  ov: what unlock_response[0].status reads when the
\* reply has no entry.
UnlockEach(m, fr, e, x, ov) ==
    IF e.status = 0
    THEN Only({IF r.ret # 0
               THEN [r EXCEPT !.log = Append(@, Msg("cluster command to node failed", e.node))]
               ELSE IF EntryAt(r.heap, r.rptr, 1, [NoView EXCEPT !.st = [k \in 1..MaxReplyLen |-> ov]]).status # 0
               THEN [r EXCEPT !.log = Append(@, Msg("unlock failed", e.node)),
                              !.reads = Append(@, ReadOf("unlock_response", 1, r.rnum))]
               ELSE [r EXCEPT !.reads = Append(@, ReadOf("unlock_response", 1, r.rnum))]
               : r \in {cluster_request(m, fr.cmd, e.node, fr.args, x)}})
    ELSE [m EXCEPT !.log = Append(@, Msg("left locked", e.node))]

\* The exit of unlock_for_cluster returning the status of the release of the
\* unlock reply instead of 0.
UnlockExitStatus(m, sig2) == SetRet(cluster_free_request(m, m.response, sig2), m.ret)

\* Lines 487-489.
UnlockExit(m, sig2) == SetRet(cluster_free_request(m, m.response, sig2), 0)


\* The local unlock calling no collaborator.
UnlockLocalNone(m, name, local) == SetRet(m, 0)

\* unlock_lvm, unlock_vg, unlock_lv when not clustered: the local unlock.
UnlockLocal(m, name, local) ==
    [m EXCEPT !.collab = IF local = "" THEN @ ELSE Append(@, [fn |-> local, obj |-> name, flag |-> 0]),
              !.ret = 0]

(***************************************************************************)
(* State.                                                                  *)
(***************************************************************************)
VARIABLES clvmd_sock, errno, heap, num_responses, response, clustered, suspended, pc, frame, app, acq, last, prev, hdr, calls

prog == <<clvmd_sock, errno, heap, num_responses, response, clustered, suspended>>
vars == <<clvmd_sock, errno, heap, num_responses, response, clustered, suspended, pc, frame, app, acq, last, prev, hdr, calls>>

\* The state a call starts from, and the state a step of a call goes on from.
Cur ==
    [sock |-> clvmd_sock, errno |-> errno, heap |-> heap, num_responses |-> num_responses,
     response |-> response, clustered |-> clustered, suspended |-> suspended, acq |-> acq,
     sent |-> <<>>, freed |-> <<>>, collab |-> <<>>, log |-> <<>>, opens |-> <<>>, reads |-> <<>>,
     ret |-> 0, rset |-> FALSE, rptr |-> NULL, rnum |-> 0, retbuf |-> FALSE]
Ongoing == [Cur EXCEPT !.sent = last.sent, !.freed = last.freed, !.collab = last.collab, !.log = last.log, !.reads = last.reads]

Store(m) ==
    /\ clvmd_sock' = m.sock
    /\ errno' = m.errno
    /\ heap' = m.heap
    /\ num_responses' = m.num_responses
    /\ response' = m.response
    /\ clustered' = m.clustered
    /\ suspended' = m.suspended
    /\ acq' = m.acq

\* What the environment did in one exchange, as the history keeps it.
XSum(sock, x) ==
    [conn |-> IF sock = NoSock THEN x.conn ELSE "open",
     io |-> x.io, hst |-> x.hst, n |-> Len(x.reply), len |-> Len(x.stream), cut |-> x.cut, at |-> x.at]

\* The history: the call in progress or last completed, and the one before.
Rec(op, scope, obj, susp, m, xs, reply, done) ==
    [op |-> op, scope |-> scope, obj |-> obj, susp |-> susp, ret |-> m.ret, done |-> done,
     sent |-> m.sent, freed |-> m.freed, collab |-> m.collab, log |-> m.log,
     xs |-> xs, reply |-> reply, cl |-> m.clustered, num |-> m.num_responses, ptr |-> m.rptr,
     rset |-> m.rset, rnum |-> m.rnum, retbuf |-> m.retbuf, opens |-> m.opens, reads |-> m.reads]
Summary(l) ==
    [op |-> l.op, scope |-> l.scope, obj |-> l.obj, susp |-> l.susp, ret |-> l.ret,
     xs |-> l.xs, reply |-> l.reply, cl |-> l.cl, num |-> l.num, sent |-> l.sent, collab |-> l.collab]

\* prev is kept for the unlock calls, which are the calls the history of the
\* call before matters to.
UnlockOps == {"unlock_lvm", "unlock_vg", "unlock_lv", "unlock_for_cluster"}
NoLast ==
    [op |-> "", scope |-> "", obj |-> EmptyStr, susp |-> 0, ret |-> 0, done |-> TRUE,
     sent |-> <<>>, freed |-> <<>>, collab |-> <<>>, log |-> <<>>,
     xs |-> <<>>, reply |-> <<>>, cl |-> 0, num |-> 0, ptr |-> NULL, rset |-> FALSE, rnum |-> 0, retbuf |-> FALSE, opens |-> <<>>, reads |-> <<>>]
NoPrev == Summary(NoLast)

NoHdr == [cmd |-> "", node |-> EmptyStr, len |-> 0, done |-> FALSE, head |-> build_header("", EmptyStr, 0)]

InitProg ==
    /\ clvmd_sock = NoSock
    /\ errno = 0
    /\ heap = [h \in Handles |-> FreeBlock]
    /\ num_responses = 0
    /\ response = NULL
    /\ clustered = 0
    /\ suspended = 0
    /\ pc = "idle"
    /\ frame = NoFrame
    /\ app = {}
    /\ last = NoLast
    /\ prev = NoPrev
    /\ acq = "none"
    /\ calls = 0

Init == InitProg /\ hdr = NoHdr

(***************************************************************************)
(* Inputs: what the environment answers in one exchange, and what a read   *)
(* of freed, never assigned or out-of-bounds memory finds.                 *)
(***************************************************************************)
NoX == [conn |-> "ok", io |-> "none", hst |-> 0, reply |-> <<>>, stream |-> <<EmptyStr>>, cut |-> FALSE, at |-> 0, h |-> NULL]
\* The daemon answers with header status s and the records r.
Answer(s, r, h) == [conn |-> "ok", io |-> "reply", hst |-> s, reply |-> r, stream |-> Wire(r), cut |-> FALSE, at |-> 0, h |-> h]
\* The reply r arrives and malloc fails for the response text of entry i.
NoMemAt(r, i, h) == [Answer(0, r, h) EXCEPT !.io = "nomem_entry", !.at = i]
\* Lines 127-132: the daemon closes the connection when k fields of the
\* arguments have arrived.  The loop ends on the zero-length read, and the
\* rest of the buffer is what malloc left there: tail.
JunkTails == {<<EmptyStr>>, <<GarbageNode, 0 - EBUSY, EmptyStr, EmptyStr>>}
Truncated(s, r, k, tail, h) == [Answer(s, r, h) EXCEPT !.cut = TRUE, !.stream = SubSeq(Wire(r), 1, k) \o tail]
ConnFails == {[NoX EXCEPT !.conn = c] : c \in {"enoent", "refused"}}
IoFails == {[NoX EXCEPT !.io = k] : k \in {"short_write", "read_err", "eof", "nomem_buf", "nomem_set"}}
XFails(x) == x.conn # "ok" \/ x.io # "reply"

\* malloc places a new response set in the lowest free block; with no free
\* block it fails.
Place(hp) == IF FreeHandles(hp) = {} THEN {} ELSE {CHOOSE h \in FreeHandles(hp) : \A g \in FreeHandles(hp) : h <= g}

\* The exchanges of the lock API: connect fails, the write is short, the
\* read fails, memory runs out, or a reply arrives.  A reply with a negative
\* header status is drawn with at most one record; the replies to an unlock
\* carry no host-down status, and the reply of one node has at most one record.
Fails(sock) == IF sock = NoSock THEN ConnFails ELSE {}
LockFails == {x \in IoFails : x.io \in {"short_write", "read_err", "eof", "nomem_set"}}
StepFails == {x \in IoFails : x.io = "short_write"}
ShortReplies == {r \in Replies : Len(r) <= 1}
UnlockReplies == {r \in Replies : \A i \in 1..Len(r) : r[i].status # 0 - EHOSTDOWN}
StepReplies == {r \in AllReplies : Len(r) <= 1 /\ \A i \in 1..Len(r) : r[i].status # 0 - EHOSTDOWN}
LockIn(sock, hp) ==
    Fails(sock) \cup LockFails
                \cup {Answer(0, r, h) : r \in Replies, h \in Place(hp)}
                \cup {Answer(s, r, h) : s \in HeaderStatuses \ {0}, r \in ShortReplies, h \in Place(hp)}
UnlockIn(sock, hp) ==
    Fails(sock) \cup LockFails
                \cup {Answer(0, r, h) : r \in UnlockReplies, h \in Place(hp)}
                \cup {Answer(s, r, h) : s \in HeaderStatuses \ {0}, r \in ShortReplies, h \in Place(hp)}
StepIn(sock, hp) == Fails(sock) \cup StepFails \cup {Answer(0, r, h) : r \in StepReplies, h \in Place(hp)}
DirectIn(sock, hp) == Fails(sock) \cup {Answer(0, ZeroReply(MaxReplyLen), h) : h \in Place(hp)}
ApiIn(sock, hp) ==
    Fails(sock) \cup IoFails \cup {Answer(s, ZeroReply(n), h) : s \in HeaderStatuses, n \in 0..MaxReplyLen, h \in Place(hp)}
                \cup {Truncated(0, ZeroReply(2), 3, t, h) : t \in JunkTails, h \in Place(hp)}
                \cup {NoMemAt(ZeroReply(MaxReplyLen), i, h) : i \in {1, MaxReplyLen}, h \in Place(hp)}

\* What the statuses of a freed stored set read as: each zero or not.
Garbage == {0, 0 - EBUSY}
ViewOf(f, n, j) == [st |-> [k \in 1..MaxReplyLen |-> IF k <= n THEN f[k] ELSE 0], junk |-> j]
EntryViews(hp, p, n) == IF n > 0 /\ IsStale(hp, p) THEN {ViewOf(f, n, FALSE) : f \in [1..n -> Garbage]} ELSE {NoView}
StepViews(hp, p, i) == IF IsStale(hp, p) THEN {ViewOf([k \in 1..i |-> s], i, j) : s \in Garbage, j \in BOOLEAN} ELSE {NoView}
\* Whether the report of a whole-cluster unlock reads a node name outside the
\* live stored set: past its end, or in a freed block.
ReadsOutside(hp, p, n, x) == ~XFails(x) /\ x.hst = 0 /\ \E i \in NonZero(x.reply) : ~IsLive(hp, p) \/ i > n
JunkChoices(hp, p, n, x) == IF ReadsOutside(hp, p, n, x) THEN BOOLEAN ELSE {FALSE}
OvChoices(x) == IF ~XFails(x) /\ x.hst = 0 /\ Len(x.reply) = 0 THEN Garbage ELSE {0}
SigChoices(hp, p) == IF IsStale(hp, p) THEN BOOLEAN ELSE {FALSE}
LockSig(hp, p, x) == IF XFails(x) THEN SigChoices(hp, p) ELSE {FALSE}
PvChoices(x, fr) == IF XFails(x) /\ ~fr.urset THEN {NULL} \cup Handles ELSE {NULL}

(***************************************************************************)
(* Actions: one per API function; the per-node loop of unlock_for_cluster  *)
(* takes one step per turn.                                                *)
(***************************************************************************)
Finish(op, scope, obj, susp, m, xs, reply) ==
    /\ Store(m)
    /\ pc' = "idle"
    /\ frame' = NoFrame
    /\ last' = Rec(op, scope, obj, susp, m, xs, reply, TRUE)
    /\ prev' = IF pc # "idle" THEN prev ELSE IF op \in UnlockOps THEN Summary(last) ELSE NoPrev
    /\ calls' = IF pc # "idle" THEN calls ELSE calls + 1

\* The program is between two calls, and the caller makes another one.
Idle == pc = "idle" /\ calls < MaxCalls

LockReply(x) == IF XFails(x) THEN <<>> ELSE x.reply

LockLvm ==
    /\ Idle
    /\ \E suspend \in {0, 1}, x \in LockIn(clvmd_sock, heap) : \E sg \in LockSig(heap, response, x) :
       \E r \in {lock_lvm(Cur, suspend, x, sg)} :
          Finish("lock_lvm", "G", NullStr, suspend, r, <<XSum(clvmd_sock, x)>>, LockReply(x))
    /\ UNCHANGED <<app, hdr>>

LockVg ==
    /\ Idle
    /\ \E vg \in VGNames, suspend \in {0, 1}, x \in LockIn(clvmd_sock, heap) : \E sg \in LockSig(heap, response, x) :
       \E r \in {lock_vg(Cur, vg, suspend, x, sg)} :
          Finish("lock_vg", "V", vg, suspend, r, <<XSum(clvmd_sock, x)>>, LockReply(x))
    /\ UNCHANGED <<app, hdr>>

LockLv ==
    /\ Idle
    /\ \E lv \in LVNames, suspend \in {0, 1}, x \in LockIn(clvmd_sock, heap) : \E sg \in LockSig(heap, response, x) :
       \E r \in {lock_lv(Cur, lv, suspend, x, sg)} :
          Finish("lock_lv", "L", lv, suspend, r, <<XSum(clvmd_sock, x)>>, LockReply(x))
    /\ UNCHANGED <<app, hdr>>

\* lock_for_cluster called directly, with a scope it accepts and one it refuses.
LockForCluster ==
    /\ Idle
    /\ \E scope \in {"G", BadScope} : \E x \in (IF scope \in Scopes THEN DirectIn(clvmd_sock, heap) ELSE {NoX}) :
       \E sg \in LockSig(heap, response, x) : \E r \in {lock_for_cluster(Cur, scope, NullStr, 0, x, sg)} :
          Finish("lock_for_cluster", scope, NullStr, 0, r,
                 IF scope \in Scopes THEN <<XSum(clvmd_sock, x)>> ELSE <<>>,
                 IF scope \in Scopes THEN LockReply(x) ELSE <<>>)
    /\ UNCHANGED <<app, hdr>>

\* The exit of unlock_for_cluster (lines 487-489) and the return.
Exit(op, scope, obj, susp, m, xs) ==
    \E sig2 \in SigChoices(m.heap, m.response) : \E r \in {UnlockExit(m, sig2)} :
       Finish(op, scope, obj, susp, r, xs, <<>>)

\* unlock_for_cluster(scope, name, susp) from its entry: returns at once,
\* unlocks the whole cluster and returns, or enters the per-node loop.
UnlockForClusterFrom(op, scope, name, susp) ==
    \E sv \in EntryViews(heap, response, num_responses) : \E e \in {UnlockEntry(Cur, scope, sv)} :
       LET fr == [i |-> 1, cmd |-> UnlockCmd(susp), args |-> LockArgs(scope, name), ur |-> NULL, urset |-> FALSE]
       IN  IF e.go = "ret" THEN Finish(op, scope, name, susp, e.m, <<>>, <<>>)
           ELSE IF e.go = "each"
           THEN /\ Store(e.m)
                /\ pc' = "unlock_loop"
                /\ frame' = fr
                /\ last' = Rec(op, scope, name, susp, e.m, <<>>, <<>>, FALSE)
                /\ prev' = Summary(last)
                /\ calls' = calls + 1
           ELSE \E x \in UnlockIn(clvmd_sock, heap) : \E pv \in PvChoices(x, fr), jk \in JunkChoices(heap, response, num_responses, x) :
                   \E l \in {UnlockAll(e.m, fr, x, [sv EXCEPT !.junk = jk])} : \E ur \in {UnlockResponse(l, fr, pv)} :
                   \E sig1 \in SigChoices(l.heap, ur) : \E f \in {cluster_free_request(l, ur, sig1)} :
                      Exit(op, scope, name, susp, f, <<XSum(clvmd_sock, x)>>)

UnlockScope(op, scope, name, local) ==
    /\ Idle
    /\ IF clustered = 0
       THEN \E r \in {UnlockLocal(Cur, name, local)} : Finish(op, scope, name, suspended, r, <<>>, <<>>)
       ELSE UnlockForClusterFrom(op, scope, name, suspended)
    /\ UNCHANGED <<app, hdr>>

UnlockLvm == UnlockScope("unlock_lvm", "G", NullStr, "")
UnlockVg == \E vg \in VGNames : UnlockScope("unlock_vg", "V", vg, "activate_lvs_in_vg")
UnlockLv == \E lv \in LVNames : UnlockScope("unlock_lv", "L", lv, "lv_reactivate")

\* unlock_for_cluster called directly, with a scope it accepts and one it refuses.
UnlockForCluster ==
    /\ Idle
    /\ \E scope \in {"G", BadScope} : UnlockForClusterFrom("unlock_for_cluster", scope, NullStr, 0)
    /\ UNCHANGED <<app, hdr>>

\* One turn of the loop at lines 434-460; after the last one, the exit.
UnlockNode ==
    /\ pc = "unlock_loop"
    /\ \E sv \in StepViews(heap, response, frame.i) : \E m \in {Ongoing} : \E e \in {EntryAt(m.heap, m.response, frame.i, sv)} :
          LET next == [frame EXCEPT !.i = @ + 1]
              Go(m2, fr2, xs) ==
                  IF fr2.i > m2.num_responses
                  THEN Exit(last.op, last.scope, last.obj, last.susp, m2, xs)
                  ELSE /\ Store(m2)
                       /\ pc' = "unlock_loop"
                       /\ frame' = fr2
                       /\ last' = Rec(last.op, last.scope, last.obj, last.susp, m2, xs, <<>>, FALSE)
                       /\ prev' = prev
                       /\ calls' = calls
          IN  IF e.status = 0
              THEN \E x \in StepIn(clvmd_sock, heap) : \E pv \in PvChoices(x, frame), ov \in OvChoices(x) :
                      \E l \in {UnlockEach(m, frame, e, x, ov)} : \E ur \in {UnlockResponse(l, frame, pv)} :
                      \E sig1 \in SigChoices(l.heap, ur) : \E f \in {cluster_free_request(l, ur, sig1)} :
                         Go(f, [next EXCEPT !.ur = ur, !.urset = TRUE], Append(last.xs, XSum(clvmd_sock, x)))
              ELSE \E l \in {UnlockEach(m, frame, e, NoX, 0)} : Go(l, next, last.xs)
    /\ UNCHANGED <<app, hdr>>

Next ==
    \/ LockLvm
    \/ LockVg
    \/ LockLv
    \/ UnlockLvm
    \/ UnlockVg
    \/ UnlockLv
    \/ LockForCluster
    \/ UnlockForCluster
    \/ UnlockNode

Spec == Init /\ [][Next]_vars

(***************************************************************************)
(* The request API called directly.  app: the pointers cluster_request has *)
(* handed to the caller, which it may pass to cluster_free_request.        *)
(***************************************************************************)
\* The program is between two calls of the request API.
ApiIdle == pc = "idle" /\ calls < MaxApiCalls

ClusterRequest ==
    /\ ApiIdle
    /\ \E node \in Targets, x \in ApiIn(clvmd_sock, heap) :
       \E r \in {cluster_request(Cur, CLVMD_CMD_TEST, node, TestData, x)} :
              /\ Finish("cluster_request", "", node, 0, r, <<XSum(clvmd_sock, x)>>, LockReply(x))
              /\ app' = IF r.rset THEN app \cup {r.rptr} ELSE app
    /\ UNCHANGED hdr

ClusterWrite ==
    /\ ApiIdle
    /\ \E node \in Targets, x \in ApiIn(clvmd_sock, heap) :
       \E r \in {cluster_write(Cur, CLVMD_CMD_TEST, node, TestData, x)} :
          Finish("cluster_write", "", node, 0, r, <<XSum(clvmd_sock, x)>>, <<>>)
    /\ UNCHANGED <<app, hdr>>

ClusterFreeRequest ==
    /\ ApiIdle
    /\ \E p \in app \cup {NULL, Foreign} : \E sg \in SigChoices(heap, p) :
       \E r \in {[cluster_free_request(Cur, p, sg) EXCEPT !.rptr = p]} :
          Finish("cluster_free_request", "", EmptyStr, 0, r, <<>>, <<>>)
    /\ UNCHANGED <<app, hdr>>

NextApi ==
    \/ ClusterRequest
    \/ ClusterWrite
    \/ ClusterFreeRequest

SpecApi == Init /\ [][NextApi]_vars

(***************************************************************************)
(* cluster_request decoding the reply streams a daemon can send: up to     *)
(* MaxRecords records, the empty node name, and what follows it.           *)
(***************************************************************************)
Responses == {EmptyStr, <<"r">>}
\* The records drawn: two nodes, each with a zero and a non-zero status, and
\* both response texts with either.
Records ==
    {r \in [node : {NodeName(1), NodeName(2)}, status : Garbage, response : Responses]
     : (r.response = EmptyStr) = ((r.node = NodeName(1)) = (r.status = 0))}
RecordSeqs == UNION {[1..n -> Records] : n \in 0..MaxRecords}
\* What follows the empty node name: nothing, another empty node name, or
\* one more record and the end.
Trailers == {<<>>, <<EmptyStr>>, Wire(<<[node |-> NodeName(3), status |-> 0 - EBUSY, response |-> <<"r">>]>>)}
DecodeIn(sock, hp) ==
    Fails(sock) \cup {[Answer(st, r, h) EXCEPT !.stream = Wire(r) \o t]
                      : st \in HeaderStatuses, r \in RecordSeqs, t \in Trailers, h \in Place(hp)}

DecodeReply ==
    /\ pc = "idle"
    /\ calls < MaxDecodes
    /\ \E x \in DecodeIn(clvmd_sock, heap) :
       \E r \in {cluster_request(Cur, CLVMD_CMD_TEST, EmptyStr, TestData, x)} :
              /\ Finish("cluster_request", "", EmptyStr, 0, r, <<XSum(clvmd_sock, x)>>, LockReply(x))
              /\ app' = IF r.rset THEN app \cup {r.rptr} ELSE app
    /\ UNCHANGED hdr

NextDecode == DecodeReply

SpecDecode == Init /\ [][NextDecode]_vars

(***************************************************************************)
(* build_header on its own: a header is built for each command, target and *)
(* argument length drawn.                                                  *)
(***************************************************************************)
Cmds == {CLVMD_CMD_LOCK, CLVMD_CMD_LOCK_SUSPEND, CLVMD_CMD_UNLOCK, CLVMD_CMD_UNLOCK_RESUME, CLVMD_CMD_TEST}
HeaderNodes == Targets \cup {NullStr, NodeName(2), <<"*", "*">>, <<".", "A">>, <<"A", ".">>, <<"A", "*">>}

InitHeader ==
    /\ InitProg
    /\ hdr \in {[NoHdr EXCEPT !.cmd = c, !.node = n, !.len = l] : c \in Cmds, n \in HeaderNodes, l \in 0..MaxLen}

BuildHeader ==
    /\ ~hdr.done
    /\ hdr' = [hdr EXCEPT !.done = TRUE, !.head = build_header(hdr.cmd, hdr.node, hdr.len)]
    /\ UNCHANGED <<clvmd_sock, errno, heap, num_responses, response, clustered, suspended, pc, frame, app, acq, last, prev, calls>>

NextHeader == BuildHeader

SpecHeader == InitHeader /\ [][NextHeader]_vars

(***************************************************************************)
(* Properties.  last is the call in progress or last completed; prev, kept *)
(* when last is an unlock, is the call before it.                          *)
(***************************************************************************)
LockOps == {"lock_lvm", "lock_vg", "lock_lv"}
FacadeUnlocks == {"unlock_lvm", "unlock_vg", "unlock_lv"}

Broadcast(s) == s.head.node = <<NUL>> /\ s.head.flags = 0
DirectedTo(s, i) == s.head.node = NodeName(i) \o <<NUL>>
IsUnlock(s) == s.head.cmd \in {CLVMD_CMD_UNLOCK, CLVMD_CMD_UNLOCK_RESUME}

\* The call l made one exchange and a reply to it was read and decoded.
Replied(l) == l.xs # <<>> /\ l.xs[1].io = "reply"
AllOk(l) == Replied(l) /\ l.xs[1].hst = 0 /\ \A i \in 1..Len(l.reply) : l.reply[i].status = 0
SomeDown(l) == Replied(l) /\ \E i \in 1..Len(l.reply) : l.reply[i].status = 0 - EHOSTDOWN
ConnectEnoent(l) == l.xs # <<>> /\ l.xs[1].conn = "enoent"
Fallback(l) == l.op \in LockOps /\ l.ret = 0 /\ l.cl = 0

\* last is a completed unlock_lvm, unlock_vg or unlock_lv that follows a
\* lock_lvm, lock_vg or lock_lv.
UnlockAfterLock == last.done /\ last.op \in FacadeUnlocks /\ prev.op \in LockOps
\* The call last went through unlock_for_cluster.
UfcCalled == last.op = "unlock_for_cluster" \/ (last.op \in FacadeUnlocks /\ last.cl # 0)

\* The reply of claim C1: A and C report 0, B reports host down.
PartialReply == <<Entry(1, 0), Entry(2, 0 - EHOSTDOWN), Entry(3, 0)>>
AfterPartial == UnlockAfterLock /\ Replied(prev) /\ prev.reply = PartialReply

\* C1, as stated: after a lock whose reply reports A and C with status 0 and
\* B host down, the following unlock sends a directed UNLOCK to A and to C,
\* none to B, and no broadcast.
C1_DirectedToSucceeded ==
    AfterPartial =>
       /\ \E k \in 1..Len(last.sent) : DirectedTo(last.sent[k], 1) /\ IsUnlock(last.sent[k])
       /\ \E k \in 1..Len(last.sent) : DirectedTo(last.sent[k], 3) /\ IsUnlock(last.sent[k])
       /\ \A k \in 1..Len(last.sent) : ~DirectedTo(last.sent[k], 2) /\ ~Broadcast(last.sent[k])

\* C1, amended: after a lock whose reply reports A and C with status 0 and
\* B host down, the lock has released the set and zeroed the stored count,
\* and the following unlock sends no request at all.
C1_NothingSentAfterHostDown ==
    AfterPartial => prev.num = 0 /\ last.sent = <<>>

C1_Witness == AfterPartial /\ last.sent = <<>> /\ last.ret = 0

\* C2, the lock: a lock whose reply reports status 0 for every node, under a
\* top-level status 0, returns success, keeps the set and sets clustered.
C2_LockHeld ==
    (last.op \in LockOps /\ AllOk(last)) =>
       /\ last.ret = 0
       /\ last.cl = 1
       /\ IsLive(heap, response)
       /\ heap[response].ent = last.reply
       /\ num_responses = Len(last.reply)

OneBroadcastUnlock == Len(last.sent) = 1 /\ Broadcast(last.sent[1]) /\ IsUnlock(last.sent[1])

\* C2, as stated: C2_LockHeld, and the unlock that follows such a lock sends
\* exactly one request, a broadcast UNLOCK or UNLOCK_RESUME, whatever the
\* number of nodes in the reply.
C2_OneBroadcastAnyCount ==
    /\ C2_LockHeld
    /\ (UnlockAfterLock /\ AllOk(prev)) => OneBroadcastUnlock

\* C2, amended: C2_LockHeld, and the unlock that follows such a lock whose
\* reply holds at least one node sends exactly one request, a broadcast
\* UNLOCK or UNLOCK_RESUME; after a reply that holds no node it sends none.
C2_OneBroadcast ==
    /\ C2_LockHeld
    /\ (UnlockAfterLock /\ AllOk(prev) /\ Len(prev.reply) >= 1) => OneBroadcastUnlock
    /\ (UnlockAfterLock /\ AllOk(prev) /\ Len(prev.reply) = 0) => last.sent = <<>>

C2_Witness == UnlockAfterLock /\ AllOk(prev) /\ Len(prev.reply) = MaxReplyLen /\ OneBroadcastUnlock

\* C3: when no acquire is outstanding because none has occurred or the most
\* recent lock_for_cluster returned failure, unlock_for_cluster returns
\* success, sends nothing and frees nothing.
C3_UnlockNoOp ==
    (last.done /\ UfcCalled /\ acq \in {"none", "failed"}) =>
       last.ret = 0 /\ last.sent = <<>> /\ last.freed = <<>>

C3_Witness ==
    /\ last.done /\ UfcCalled /\ acq = "failed"
    /\ prev.op \in LockOps /\ SomeDown(prev)
    /\ last.sent = <<>>

Reactivate(op) == IF op = "lock_vg" THEN "activate_lvs_in_vg" ELSE "lv_reactivate"
Suspend(op) == IF op = "lock_vg" THEN "suspend_lvs_in_vg" ELSE "lv_suspend"
Matching(op) == IF op = "lock_vg" THEN "unlock_vg" ELSE "unlock_lv"
LocalUnlockCase ==
    /\ last.done /\ prev.op \in {"lock_vg", "lock_lv"} /\ ConnectEnoent(prev)
    /\ last.op = Matching(prev.op) /\ last.obj = prev.obj

\* C4: a lock_vg or lock_lv whose connect fails with ENOENT returns success
\* with clustered false, and the matching unlock calls the local reactivation
\* once, sends nothing and returns success.
C4_FallbackRoundTrip ==
    /\ (last.op \in {"lock_vg", "lock_lv"} /\ ConnectEnoent(last)) => last.ret = 0 /\ last.cl = 0
    /\ LocalUnlockCase =>
          /\ last.collab = <<[fn |-> Reactivate(prev.op), obj |-> last.obj, flag |-> 0]>>
          /\ last.sent = <<>>
          /\ last.ret = 0

C4_Witness == LocalUnlockCase /\ Len(last.collab) = 1

\* C5: every lock_lvm, lock_vg or lock_lv whose completed reply holds an
\* entry with the host-down status returns failure and does not take the
\* non-clustered fallback.
C5_HostDownFails ==
    (last.op \in LockOps /\ SomeDown(last)) => last.ret # 0 /\ last.cl = 1 /\ last.collab = <<>>

\* C6: a lock takes the non-clustered fallback only if the connect of that
\* same call failed with ENOENT; a lock whose exchange fails for another
\* reason returns failure and leaves clustered true.
C6_FallbackOnlyOnEnoent ==
    last.op \in LockOps =>
       /\ Fallback(last) => ConnectEnoent(last)
       /\ (last.xs[1].conn = "refused" \/ last.xs[1].io \in {"short_write", "read_err", "eof"}) =>
             last.ret = 0 - 1 /\ last.cl = 1

\* C7: unlock_lvm, unlock_vg and unlock_lv return success whatever happened
\* to the exchanges they made.
C7_UnlockSucceeds ==
    (last.done /\ last.op \in FacadeUnlocks) => last.ret = 0

C7_Witness ==
    /\ last.done /\ last.op \in FacadeUnlocks /\ last.ret = 0
    /\ \E k \in 1..Len(last.xs) : last.xs[k].io # "reply"
    /\ \E k \in 1..Len(last.log) : last.log[k].msg = "cluster command failed"

\* C8: cluster_free_request on a pointer that is not a live response set
\* (released before, NULL, or without the signature) returns -1 with EINVAL
\* and frees nothing; on a live set it frees every buffer, then the set, and
\* returns 0.
C8_FreeValidates ==
    [][(calls' = calls + 1 /\ last'.op = "cluster_free_request") =>
          IF IsLive(heap, last'.ptr)
          THEN /\ last'.ret = 0
               /\ last'.freed = FreeEvents(last'.ptr, heap[last'.ptr].num, TRUE)
               /\ heap' = [heap EXCEPT ![last'.ptr] = FreeBlock]
          ELSE /\ last'.ret = 0 - 1
               /\ errno' = EINVAL
               /\ last'.freed = <<>>
               /\ heap' = heap]_vars

\* C9, as stated: in the fallback lock_vg and lock_lv call the local suspend
\* once, with the object and the suspend flag the caller passed.
C9_SuspendWithCallerFlag ==
    (last.op \in {"lock_vg", "lock_lv"} /\ Fallback(last)) =>
       last.collab = <<[fn |-> Suspend(last.op), obj |-> last.obj, flag |-> last.susp]>>

\* C9, amended: in the fallback lock_vg and lock_lv call the local suspend
\* once, with the object and the flag 1, whatever flag the caller passed.
C9_SuspendWithOne ==
    (last.op \in {"lock_vg", "lock_lv"} /\ Fallback(last)) =>
       last.collab = <<[fn |-> Suspend(last.op), obj |-> last.obj, flag |-> 1]>>

C9_Witness ==
    /\ last.op \in {"lock_vg", "lock_lv"} /\ Fallback(last) /\ last.susp = 0
    /\ Len(last.collab) = 1 /\ last.collab[1].flag = 1

\* C10: build_header gives an empty node field without the local flag for
\* "*", "" and no target, an empty node field with the local flag for ".",
\* the name followed by NUL without the local flag for any other name, and
\* always status 0, client id 0, the command and the argument length passed.
C10_Wildcards ==
    hdr.done =>
       /\ hdr.head.status = 0 /\ hdr.head.clientid = 0
       /\ hdr.head.cmd = hdr.cmd /\ hdr.head.arglen = hdr.len
       /\ hdr.head.node = (IF hdr.node \in {<<"*">>, <<".">>, EmptyStr, NullStr} THEN <<NUL>> ELSE hdr.node \o <<NUL>>)
       /\ hdr.head.flags = (IF hdr.node = <<".">> THEN CLVMD_FLAG_LOCAL ELSE 0)

C10_Witness ==
    /\ hdr.done /\ hdr.node = <<"*", "*">>
    /\ hdr.head.node = <<"*", "*", NUL>> /\ hdr.head.flags = 0

\* C11: when a reply is a run of records (node, status, response) followed by
\* an empty node name, the set cluster_request produces holds exactly the
\* records before the first empty node name, in order, each with its node,
\* status and response, and the count it reports is their number; what
\* follows the empty node name is ignored.
C11_DecodeUpToEmptyNode ==
    (last.op = "cluster_request" /\ Replied(last) /\ ~last.xs[1].cut /\ last.rset) =>
       /\ last.rnum = Len(last.reply)
       /\ IsLive(heap, last.ptr)
       /\ heap[last.ptr].num = Len(last.reply)
       /\ heap[last.ptr].ent = last.reply
C11_Witness ==
    /\ last.op = "cluster_request" /\ Replied(last) /\ last.rset
    /\ Len(last.reply) = MaxRecords
    /\ last.xs[1].len > 3 * Len(last.reply) + 1
    /\ last.reply[1].response # EmptyStr /\ last.reply[1].node # last.reply[2].node
    /\ heap[last.ptr].ent = last.reply

\* The call before last was a lock that went to the cluster and succeeded,
\* so that last started with the lock held.
HeldBefore ==
    /\ Replied(prev) /\ prev.ret = 0
    /\ (prev.op \in LockOps /\ prev.cl = 1) \/ prev.op = "lock_for_cluster"

\* C12: when unlock_for_cluster has completed on a held session the session
\* is idle: the stored response set is released and the stored count is zero
\* (so that another unlock would send nothing and free nothing).
C12_UnlockLeavesIdle ==
    (last.done /\ UfcCalled /\ HeldBefore) =>
       /\ num_responses = 0
       /\ ~IsLive(heap, response)

\* The daemon closed the connection before the whole reply of the call l had
\* arrived.
CutShort(l) == l.xs # <<>> /\ l.xs[1].io = "reply" /\ l.xs[1].cut

\* C13: when the daemon closes the connection before all the bytes of the
\* reply arguments have been received, the exchange fails and cluster_request
\* decodes no response set from the truncated reply.
C13_TruncatedReplyFails ==
    (last.op = "cluster_request" /\ CutShort(last)) =>
       /\ last.ret = 0 - 1
       /\ ~last.rset
       /\ last.rnum = 0

\* malloc failed for the response text of an entry while the call l decoded
\* its reply.
EntryAllocFailed(l) == l.xs # <<>> /\ l.xs[1].io = "nomem_entry"
\* How many times the call l freed the thing what (of entry i).
TimesFreed(l, what, i) == Cardinality({k \in DOMAIN l.freed : l.freed[k].what = what /\ l.freed[k].i = i})

\* C14: when the allocation of the response buffer of entry i fails, the
\* buffers of the entries before i, the set and the raw reply buffer are each
\* freed exactly once, out of memory is returned, and the caller holds no
\* handle to freed memory.
C14_EntryNoMemReleasesAll ==
    (last.op = "cluster_request" /\ EntryAllocFailed(last)) =>
       /\ last.ret = 0 - 1 /\ errno = ENOMEM
       /\ \A j \in 1..(last.xs[1].at - 1) : TimesFreed(last, "buf", j) = 1
       /\ TimesFreed(last, "set", 0) = 1
       /\ TimesFreed(last, "retbuf", 0) = 1 /\ ~last.retbuf
       /\ ~(last.rset /\ IsStale(heap, last.ptr))

\* The reply to the lock l carried a negative status in its header.
NegativeHeader(l) == Replied(l) /\ l.xs[1].hst < 0
RetbufFreed == <<[what |-> "retbuf", h |-> 0, i |-> 0, ok |-> TRUE]>>

\* C15: when the reply to a lock has a negative status in its header, errno
\* is the negated status and the exchange reports -2; the reply is decoded
\* all the same, with its count; the lock counts as failed: the set just
\* decoded is released, entry by entry, and the stored count is zero.
C15_NegativeHeaderFailsLock ==
    (last.op \in LockOps /\ NegativeHeader(last)) =>
       /\ errno = 0 - last.xs[1].hst
       /\ ~SomeDown(last) => last.ret = 0 - 2
       /\ last.rset /\ last.rnum = Len(last.reply)
       /\ last.freed = RetbufFreed \o FreeEvents(last.ptr, Len(last.reply), TRUE)
       /\ acq = "failed"
       /\ num_responses = 0
       /\ ~IsLive(heap, response)
C15_Witness ==
    /\ last.op \in LockOps /\ NegativeHeader(last)
    /\ Len(last.reply) = 1
    /\ last.ret = 0 - 2
    /\ last.freed = RetbufFreed \o FreeEvents(last.ptr, 1, TRUE)
    /\ acq = "failed" /\ num_responses = 0

\* The requests written during the step: those last' holds beyond the ones
\* the call had written before it.
SentInStep == IF pc = "unlock_loop" THEN SubSeq(last'.sent, Len(last.sent) + 1, Len(last'.sent)) ELSE last'.sent

\* C16: at most one connection is ever open.  A step opens one only when
\* there is none, and then tries once; a failed open leaves none, so that the
\* next exchange tries again; an open connection is kept, whatever happens to
\* the exchanges made on it, and every request is written to it.
C16_OneConnection ==
    [][/\ Len(last'.opens) <= 1
       /\ clvmd_sock # NoSock => last'.opens = <<>> /\ clvmd_sock' = clvmd_sock
       /\ (clvmd_sock = NoSock /\ last'.opens = <<>>) => clvmd_sock' = NoSock /\ SentInStep = <<>>
       /\ last'.opens = <<"failed">> => clvmd_sock' = NoSock /\ SentInStep = <<>>
       /\ last'.opens = <<"ok">> => clvmd_sock' # NoSock
       /\ \A k \in DOMAIN SentInStep : SentInStep[k].fd = clvmd_sock' /\ clvmd_sock' # NoSock]_vars
\* A request is answered on the connection an earlier call opened, after a
\* read on that connection had failed.
C16_Witness ==
    /\ last.op = "cluster_request" /\ Replied(last) /\ last.ret = 0
    /\ last.xs[1].conn = "open" /\ last.opens = <<>>
    /\ errno = EIO
    /\ Len(last.sent) = 1 /\ last.sent[1].fd = clvmd_sock

\* The unlock that matches the lock op, and the unlock command that matches
\* the lock command cmd.
UnlockOf(op) == IF op = "lock_lvm" THEN "unlock_lvm" ELSE Matching(op)
MirrorOf(cmd) == IF cmd = CLVMD_CMD_LOCK_SUSPEND THEN CLVMD_CMD_UNLOCK_RESUME ELSE CLVMD_CMD_UNLOCK
\* last is the unlock matching the lock before it, which wrote a request.
MatchingUnlock ==
    /\ prev.op \in LockOps /\ prev.sent # <<>>
    /\ last.op = UnlockOf(prev.op) /\ last.obj = prev.obj

\* C17: when lock_lvm, lock_vg or lock_lv is followed by its matching unlock
\* with no lock in between, every request the unlock writes has the command
\* UNLOCK_RESUME if the lock wrote LOCK_SUSPEND and UNLOCK if it wrote LOCK,
\* and the scope character and object name the lock request carried.
C17_UnlockMirrorsLock ==
    MatchingUnlock =>
       \A k \in DOMAIN last.sent :
          /\ last.sent[k].head.cmd = MirrorOf(prev.sent[1].head.cmd)
          /\ last.sent[k].data = prev.sent[1].data
C17_Witness ==
    /\ MatchingUnlock /\ last.done
    /\ prev.op = "lock_vg" /\ prev.sent[1].head.cmd = CLVMD_CMD_LOCK_SUSPEND
    /\ Len(last.sent) = 2
    /\ \A k \in DOMAIN last.sent : last.sent[k].head.cmd = CLVMD_CMD_UNLOCK_RESUME /\ last.sent[k].data = <<"V", "v", "g", NUL>>

\* No lock that succeeded precedes last: it is the first call, or the lock
\* before it failed.
NoLockHeld == prev.op = "" \/ (prev.op \in LockOps /\ prev.ret # 0)

\* C18: unlock_vg and unlock_lv call the local reactivate only as the match
\* of a lock_vg or lock_lv that took the non-clustered fallback and called the
\* local suspend on the same object; an unlock that no successful lock
\* precedes calls no collaborator, writes nothing and returns success.
C18_ReactivateOnlyAfterFallback ==
    (last.done /\ last.op \in {"unlock_vg", "unlock_lv"}) =>
       /\ last.collab # <<>> =>
             /\ prev.op \in {"lock_vg", "lock_lv"} /\ last.op = Matching(prev.op) /\ last.obj = prev.obj
             /\ Fallback(prev)
             /\ prev.collab = <<[fn |-> Suspend(prev.op), obj |-> prev.obj, flag |-> 1]>>
       /\ NoLockHeld => last.collab = <<>> /\ last.sent = <<>> /\ last.ret = 0

\* C19: every response set handed to cluster_free_request is live when it is
\* handed over: nothing is freed twice, and no handle that was freed before
\* or was never assigned is freed.  This holds for a lock that fails at the
\* transport level after an earlier cycle and for an unlock whose exchange
\* fails.
C19_FreedOnlyWhileLive ==
    \A k \in DOMAIN last.freed : last.freed[k].ok

\* C20: every entry unlock_for_cluster reads lies within the count of the set
\* it is read from: unlock_response[0] is read only when the reply to the
\* unlock has at least one entry, and the report of a whole-cluster unlock
\* indexes the stored set only below the count stored at lock time.
C20_ReadsWithinCount ==
    \A k \in DOMAIN last.reads : last.reads[k].i <= last.reads[k].n

====================================================================
